---- MODULE Spec2Model ----
(***************************************************************************)
(* State-machine model of the Anchor program `prediction_market`            *)
(* (programs/prediction-market/src/lib.rs): one binary-outcome market per   *)
(* market id, one Prediction account per (market id, predictor), and the    *)
(* market vault that escrows the deposited lamports.                        *)
(*                                                                         *)
(* Every instruction is one action.  An instruction that returns an error   *)
(* leaves every account as it was (the runtime discards the account writes  *)
(* of a failed transaction); the error is recorded in `last`.               *)
(*                                                                         *)
(* u64 is modelled by 0 .. U64_MAX and u128 by 0 .. U128_OF(U64_MAX), with   *)
(* the saturating / truncating arithmetic of the source at a reduced width. *)
(*                                                                         *)
(* `vault` counts the lamports of market_vault above the rent-exempt        *)
(* reserve it is created with: what place_prediction transferred in minus   *)
(* what claim_reward and withdraw_fees debited.  The keys stored in         *)
(* yes_token_vault / no_token_vault are never read and are left out; the    *)
(* question is kept by its length.                                          *)
(***************************************************************************)
EXTENDS Integers, FiniteSets, Sequences, TLC

----------------------------------------------------------------------------
(* Bounds of the model *)

\* largest value of the model's u64
U64_MAX == 40
\* the clock runs from 0 to MaxClock
MaxClock == 3
\* deposit / withdrawal amounts tried besides 0: one too small to receive a
\* token, one that fits the pools, one that saturates a seeded pool
DustAmount == 1
MidAmount == 4
LargeAmount == 29
\* a seed liquidity large enough for deposits to receive tokens
SeedLiquidity == 32
\* width used to evaluate the worked examples of the pricing formulas
ExampleMax == 32767

Users == {"u1", "u2"}
MarketIds == {1}
Amounts == {0, DustAmount, MidAmount, LargeAmount}
InitialLiquidities == {0, 1, SeedLiquidity}
QuestionLens == {0, 1, 257}
ResolutionTimes == {1, 2}

----------------------------------------------------------------------------
(* Integer arithmetic of the source, parameterised by the width *)

Min(a, b) == IF a < b THEN a ELSE b

\* u64::saturating_add / u128::saturating_add
saturating_add(a, b, max) == IF a + b > max THEN max ELSE a + b

\* u64::saturating_sub
saturating_sub(a, b) == IF a < b THEN 0 ELSE a - b

\* u128::saturating_mul
saturating_mul(a, b, max) == IF a * b > max THEN max ELSE a * b

\* saturating_div on unsigned integers is plain floor division (b # 0)
saturating_div(a, b) == a \div b

\* largest u128 for a u64 of the given width: 2^(2w) - 1
U128_OF(max) == (max + 1) * (max + 1) - 1

\* `x as u64`: truncation of a u128 to the low 64 bits
as_u64(x, max) == x % (max + 1)

----------------------------------------------------------------------------
(* Option<bool> is a set with at most one element *)

None == {}
Some(b) == {b}

EmptyFn == [x \in {} |-> x]

----------------------------------------------------------------------------
VARIABLES
    clock,          \* Clock::get()?.unix_timestamp
    markets,        \* market id -> Market account (the initialised ones)
    predictions,    \* <<market id, predictor>> -> Prediction account
    vault,          \* market id -> lamports escrowed in market_vault
    last,           \* the last instruction executed and its result
    deposited,      \* history: lamports ever transferred into the vault
    rewards_paid,   \* history: lamports ever paid by claim_reward
    fees_paid,      \* history: lamports ever paid by withdraw_fees
    reservoir       \* history: Some(yes_pool + no_pool) at resolution

vars == <<clock, markets, predictions, vault, last,
          deposited, rewards_paid, fees_paid, reservoir>>

accounts == <<markets, predictions, vault>>
history == <<deposited, rewards_paid, fees_paid, reservoir>>

Call(op, caller, m, flag, amount, result, paid) ==
    [op |-> op, caller |-> caller, market_id |-> m, flag |-> flag,
     amount |-> amount, result |-> result, paid |-> paid]

Init ==
    /\ clock = 0
    /\ markets = EmptyFn
    /\ predictions = EmptyFn
    /\ vault = [m \in MarketIds |-> 0]
    /\ last = Call("none", "u1", 1, FALSE, 0, "Ok", 0)
    /\ deposited = [m \in MarketIds |-> 0]
    /\ rewards_paid = [m \in MarketIds |-> 0]
    /\ fees_paid = [m \in MarketIds |-> 0]
    /\ reservoir = [m \in MarketIds |-> None]

----------------------------------------------------------------------------
(* Instruction atomicity *)

\* variant of persist that keeps the handler's writes whatever it returned
persist_always(result, before, after) == after

\* The writes a handler made to its accounts are kept only when it returns
\* Ok(()); an Err (a failed require!, the `?` on the system transfer, the
\* ok_or on a checked_sub) fails the instruction and discards all of them.
persist(result, before, after) == IF result = "Ok" THEN after ELSE before

----------------------------------------------------------------------------
(* initialize_market *)

initialize_market_result(m, question_len, resolution_time) ==
    IF m \in DOMAIN markets THEN "AccountAlreadyInUse"
    ELSE IF ~(question_len > 0 /\ question_len <= 256) THEN "InvalidQuestion"
    ELSE IF ~(resolution_time > clock) THEN "InvalidResolutionTime"
    ELSE "Ok"

NewMarket(m, creator, question_len, resolution_time, initial_liquidity) ==
    [market_id       |-> m,
     question_len    |-> question_len,
     creator         |-> creator,
     created_at      |-> clock,
     resolution_time |-> resolution_time,
     yes_pool        |-> saturating_div(initial_liquidity, 2),
     no_pool         |-> saturating_div(initial_liquidity, 2),
     total_liquidity |-> initial_liquidity,
     resolved        |-> FALSE,
     outcome         |-> None,
     fee_collected   |-> 0]

initialize_market(creator, m, question_len, resolution_time, initial_liquidity) ==
    LET r == initialize_market_result(m, question_len, resolution_time) IN
    /\ last' = Call("initialize_market", creator, m, FALSE, 0, r, 0)
    /\ IF r = "Ok"
       THEN markets' = markets @@
                (m :> NewMarket(m, creator, question_len, resolution_time,
                                initial_liquidity))
       ELSE UNCHANGED markets
    /\ UNCHANGED <<clock, predictions, vault, history>>

----------------------------------------------------------------------------
(* place_prediction *)

\* variant of tokens_to_mint that divides by the pool alone
tokens_to_mint_spot(pool, amount, max) ==
    IF pool = 0 THEN 0
    ELSE as_u64(saturating_div(saturating_mul(amount, pool, U128_OF(max)), pool), max)

\* variant of tokens_to_mint that rounds the quotient up
tokens_to_mint_rounded_up(pool, amount, max) ==
    LET denominator == saturating_add(pool, amount, max)
        numerator == saturating_mul(amount, pool, U128_OF(max))
    IN  IF denominator = 0 THEN 0
        ELSE as_u64((numerator + denominator - 1) \div denominator, max)

\* tokens_out = (amount * pool_size) / (pool_size + amount), lines 82-92
tokens_to_mint(pool, amount, max) ==
    LET denominator == saturating_add(pool, amount, max) IN
    as_u64(saturating_div(saturating_mul(amount, pool, U128_OF(max)),
                          denominator), max)

side_pool(market, prediction_type) ==
    IF prediction_type THEN market.yes_pool ELSE market.no_pool

\* the system-program transfer of `amount` lamports from predictor to vault:
\* it fails when the predictor cannot fund it (funded = FALSE) or when the
\* vault balance, a u64, would overflow
transfer_ok(m, amount, funded) ==
    funded /\ vault[m] + amount <= U64_MAX

\* variant of place_prediction_result that still accepts a deposit at the
\* deadline itself (<= for <)
place_prediction_result_late(predictor, m, prediction_type, amount, funded) ==
    IF m \notin DOMAIN markets THEN "AccountNotInitialized"
    ELSE IF <<m, predictor>> \in DOMAIN predictions THEN "AccountAlreadyInUse"
    ELSE IF ~(amount > 0) THEN "InvalidAmount"
    ELSE IF markets[m].resolved THEN "MarketAlreadyResolved"
    ELSE IF ~(clock <= markets[m].resolution_time) THEN "MarketExpired"
    ELSE IF ~(tokens_to_mint(side_pool(markets[m], prediction_type),
                             amount, U64_MAX) > 0)
         THEN "InsufficientOutput"
    ELSE IF ~transfer_ok(m, amount, funded) THEN "TransferFailed"
    ELSE "Ok"

\* variant of place_prediction_result without the `tokens_to_mint > 0` guard
place_prediction_result_any_output(predictor, m, prediction_type, amount, funded) ==
    IF m \notin DOMAIN markets THEN "AccountNotInitialized"
    ELSE IF <<m, predictor>> \in DOMAIN predictions THEN "AccountAlreadyInUse"
    ELSE IF ~(amount > 0) THEN "InvalidAmount"
    ELSE IF markets[m].resolved THEN "MarketAlreadyResolved"
    ELSE IF ~(clock < markets[m].resolution_time) THEN "MarketExpired"
    ELSE IF ~transfer_ok(m, amount, funded) THEN "TransferFailed"
    ELSE "Ok"

\* variant of place_prediction_result without the `!market.resolved` guard
place_prediction_result_reopened(predictor, m, prediction_type, amount, funded) ==
    IF m \notin DOMAIN markets THEN "AccountNotInitialized"
    ELSE IF <<m, predictor>> \in DOMAIN predictions THEN "AccountAlreadyInUse"
    ELSE IF ~(amount > 0) THEN "InvalidAmount"
    ELSE IF ~(clock < markets[m].resolution_time) THEN "MarketExpired"
    ELSE IF ~(tokens_to_mint(side_pool(markets[m], prediction_type),
                             amount, U64_MAX) > 0)
         THEN "InsufficientOutput"
    ELSE IF ~transfer_ok(m, amount, funded) THEN "TransferFailed"
    ELSE "Ok"

place_prediction_result(predictor, m, prediction_type, amount, funded) ==
    IF m \notin DOMAIN markets THEN "AccountNotInitialized"
    ELSE IF <<m, predictor>> \in DOMAIN predictions THEN "AccountAlreadyInUse"
    ELSE IF ~(amount > 0) THEN "InvalidAmount"
    ELSE IF markets[m].resolved THEN "MarketAlreadyResolved"
    ELSE IF ~(clock < markets[m].resolution_time) THEN "MarketExpired"
    ELSE IF ~(tokens_to_mint(side_pool(markets[m], prediction_type),
                             amount, U64_MAX) > 0)
         THEN "InsufficientOutput"
    ELSE IF ~transfer_ok(m, amount, funded) THEN "TransferFailed"
    ELSE "Ok"

\* variant of update_pools that credits the opposing pool
update_pools_swapped(market, prediction_type, amount) ==
    IF prediction_type
    THEN [market EXCEPT !.no_pool = saturating_add(@, amount, U64_MAX)]
    ELSE [market EXCEPT !.yes_pool = saturating_add(@, amount, U64_MAX)]

\* "Update pools", lines 96-101
update_pools(market, prediction_type, amount) ==
    IF prediction_type
    THEN [market EXCEPT !.yes_pool = saturating_add(@, amount, U64_MAX)]
    ELSE [market EXCEPT !.no_pool = saturating_add(@, amount, U64_MAX)]

\* "Store prediction", lines 118-126
NewPrediction(m, predictor, prediction_type, amount, tokens) ==
    [market_id        |-> m,
     predictor        |-> predictor,
     prediction_type  |-> prediction_type,
     amount_deposited |-> amount,
     tokens_received  |-> tokens,
     created_at       |-> clock,
     claimed          |-> FALSE]

place_prediction(predictor, m, prediction_type, amount, funded) ==
    LET r == place_prediction_result(predictor, m, prediction_type, amount, funded) IN
    /\ last' = Call("place_prediction", predictor, m, prediction_type, amount, r, 0)
    /\ LET \* lines 96-101 run before the transfer of lines 104-116
           pools_written == r \in {"TransferFailed", "Ok"}
           transferred   == r = "Ok"
           tokens == tokens_to_mint(side_pool(markets[m], prediction_type),
                                    amount, U64_MAX)
       IN
       /\ markets' = persist(r, markets,
              IF pools_written
              THEN [markets EXCEPT ![m] = update_pools(@, prediction_type, amount)]
              ELSE markets)
       /\ vault' = persist(r, vault,
              IF transferred THEN [vault EXCEPT ![m] = @ + amount] ELSE vault)
       /\ predictions' = persist(r, predictions,
              IF transferred
              THEN predictions @@
                   (<<m, predictor>> :>
                        NewPrediction(m, predictor, prediction_type, amount, tokens))
              ELSE predictions)
       /\ deposited' = IF transferred
                       THEN [deposited EXCEPT ![m] = @ + amount]
                       ELSE deposited
    /\ UNCHANGED <<clock, rewards_paid, fees_paid, reservoir>>

----------------------------------------------------------------------------
(* resolve_market *)

\* variant of resolve_market_result without the `!market.resolved` guard
resolve_market_result_unguarded(admin, m) ==
    IF m \notin DOMAIN markets THEN "AccountNotInitialized"
    ELSE IF ~(markets[m].creator = admin) THEN "Unauthorized"
    ELSE IF ~(clock >= markets[m].resolution_time) THEN "MarketNotExpired"
    ELSE "Ok"

\* variant of resolve_market_result that needs the deadline to be strictly
\* in the past (> for >=)
resolve_market_result_strict(admin, m) ==
    IF m \notin DOMAIN markets THEN "AccountNotInitialized"
    ELSE IF ~(markets[m].creator = admin) THEN "Unauthorized"
    ELSE IF markets[m].resolved THEN "MarketAlreadyResolved"
    ELSE IF ~(clock > markets[m].resolution_time) THEN "MarketNotExpired"
    ELSE "Ok"

resolve_market_result(admin, m) ==
    IF m \notin DOMAIN markets THEN "AccountNotInitialized"
    ELSE IF ~(markets[m].creator = admin) THEN "Unauthorized"
    ELSE IF markets[m].resolved THEN "MarketAlreadyResolved"
    ELSE IF ~(clock >= markets[m].resolution_time) THEN "MarketNotExpired"
    ELSE "Ok"

\* lines 155-156
\* variant of set_resolved that forgets to store the outcome (line 156)
set_resolved_no_outcome(market, outcome) ==
    [market EXCEPT !.resolved = TRUE]

set_resolved(market, outcome) ==
    [market EXCEPT !.resolved = TRUE, !.outcome = Some(outcome)]

resolve_market(admin, m, outcome) ==
    LET r == resolve_market_result(admin, m) IN
    /\ last' = Call("resolve_market", admin, m, outcome, 0, r, 0)
    /\ IF r = "Ok"
       THEN /\ markets' = [markets EXCEPT ![m] = set_resolved(@, outcome)]
            /\ reservoir' = [reservoir EXCEPT
                   ![m] = Some(markets[m].yes_pool + markets[m].no_pool)]
       ELSE UNCHANGED <<markets, reservoir>>
    /\ UNCHANGED <<clock, predictions, vault, deposited, rewards_paid, fees_paid>>

----------------------------------------------------------------------------
(* claim_reward *)

\* variant of winning_pool that takes the pool of the losing side
winning_pool_other(market, outcome) ==
    IF outcome THEN market.no_pool ELSE market.yes_pool

\* lines 188
winning_pool(market, outcome) ==
    IF outcome THEN market.yes_pool ELSE market.no_pool

\* variant of total_winnings that wraps around instead of saturating
total_winnings_wrapping(market, max) ==
    (market.yes_pool + market.no_pool) % (max + 1)

\* line 189
total_winnings(market, max) ==
    saturating_add(market.yes_pool, market.no_pool, max)

\* variant of reward that forgets to divide by the winning pool
reward_undivided(tokens_received, total, winning, max) ==
    IF winning > 0
    THEN as_u64(saturating_mul(tokens_received, total, U128_OF(max)), max)
    ELSE 0

\* lines 191-197
reward(tokens_received, total, winning, max) ==
    IF winning > 0
    THEN as_u64(saturating_div(saturating_mul(tokens_received, total, U128_OF(max)),
                               winning), max)
    ELSE 0

the_outcome(market) == CHOOSE b \in market.outcome : TRUE

claim_amount(market, prediction) ==
    reward(prediction.tokens_received,
           total_winnings(market, U64_MAX),
           winning_pool(market, the_outcome(market)),
           U64_MAX)

\* the debit `**market_vault.lamports -= reward` of a u64 balance smaller
\* than the reward cannot complete: the subtraction overflows and the
\* transaction is rejected
vault_debit_ok(m, amount) == vault[m] >= amount

\* variant of claim_reward_result without the `prediction_won` guard
claim_reward_result_any_side(claimer, m) ==
    IF m \notin DOMAIN markets THEN "AccountNotInitialized"
    ELSE IF <<m, claimer>> \notin DOMAIN predictions THEN "AccountNotInitialized"
    ELSE IF ~markets[m].resolved THEN "MarketNotResolved"
    ELSE IF ~(predictions[<<m, claimer>>].predictor = claimer) THEN "Unauthorized"
    ELSE IF predictions[<<m, claimer>>].claimed THEN "AlreadyClaimed"
    ELSE IF markets[m].outcome = None THEN "InvalidOutcome"
    ELSE IF ~(claim_amount(markets[m], predictions[<<m, claimer>>]) > 0)
         THEN "NoReward"
    ELSE IF ~vault_debit_ok(m, claim_amount(markets[m], predictions[<<m, claimer>>]))
         THEN "VaultUnderflow"
    ELSE "Ok"

claim_reward_result(claimer, m) ==
    IF m \notin DOMAIN markets THEN "AccountNotInitialized"
    ELSE IF <<m, claimer>> \notin DOMAIN predictions THEN "AccountNotInitialized"
    ELSE IF ~markets[m].resolved THEN "MarketNotResolved"
    ELSE IF ~(predictions[<<m, claimer>>].predictor = claimer) THEN "Unauthorized"
    ELSE IF predictions[<<m, claimer>>].claimed THEN "AlreadyClaimed"
    ELSE IF markets[m].outcome = None THEN "InvalidOutcome"
    ELSE IF ~(predictions[<<m, claimer>>].prediction_type = the_outcome(markets[m]))
         THEN "PredictionLost"
    ELSE IF ~(claim_amount(markets[m], predictions[<<m, claimer>>]) > 0)
         THEN "NoReward"
    ELSE IF ~vault_debit_ok(m, claim_amount(markets[m], predictions[<<m, claimer>>]))
         THEN "VaultUnderflow"
    ELSE "Ok"

\* variant of set_claimed that leaves the flag as it was
set_claimed_not(prediction) == prediction

\* line 201
set_claimed(prediction) == [prediction EXCEPT !.claimed = TRUE]

claim_reward(claimer, m) ==
    LET r == claim_reward_result(claimer, m)
        \* line 201 runs before the lamport debit of lines 204-205
        claimed_written == r \in {"VaultUnderflow", "Ok"}
        debited         == r = "Ok"
        paid == IF debited
                THEN claim_amount(markets[m], predictions[<<m, claimer>>])
                ELSE 0
    IN
    /\ last' = Call("claim_reward", claimer, m, FALSE, 0, r, paid)
    /\ predictions' = persist(r, predictions,
           IF claimed_written
           THEN [predictions EXCEPT ![<<m, claimer>>] = set_claimed(@)]
           ELSE predictions)
    /\ vault' = persist(r, vault,
           IF debited THEN [vault EXCEPT ![m] = @ - paid] ELSE vault)
    /\ rewards_paid' = IF debited
                       THEN [rewards_paid EXCEPT ![m] = @ + paid]
                       ELSE rewards_paid
    /\ UNCHANGED <<clock, markets, deposited, fees_paid, reservoir>>

----------------------------------------------------------------------------
(* withdraw_fees *)

\* variant of withdraw_fees_result without the fee balance guard of line 220
withdraw_fees_result_unchecked(admin, m, amount) ==
    IF m \notin DOMAIN markets THEN "AccountNotInitialized"
    ELSE IF ~(markets[m].creator = admin) THEN "Unauthorized"
    ELSE IF ~vault_debit_ok(m, amount) THEN "VaultUnderflow"
    ELSE "Ok"

withdraw_fees_result(admin, m, amount) ==
    IF m \notin DOMAIN markets THEN "AccountNotInitialized"
    ELSE IF ~(markets[m].creator = admin) THEN "Unauthorized"
    ELSE IF ~(markets[m].fee_collected >= amount) THEN "InsufficientFees"
    ELSE IF ~vault_debit_ok(m, amount) THEN "VaultUnderflow"
    ELSE "Ok"

\* line 222
debit_fees(market, amount) ==
    [market EXCEPT !.fee_collected = saturating_sub(@, amount)]

withdraw_fees(admin, m, amount) ==
    LET r == withdraw_fees_result(admin, m, amount)
        \* line 222 runs before the lamport debit of lines 225-226
        fees_written == r \in {"VaultUnderflow", "Ok"}
        debited      == r = "Ok"
    IN
    /\ last' = Call("withdraw_fees", admin, m, FALSE, amount, r,
                    IF debited THEN amount ELSE 0)
    /\ markets' = persist(r, markets,
           IF fees_written
           THEN [markets EXCEPT ![m] = debit_fees(@, amount)]
           ELSE markets)
    /\ vault' = persist(r, vault,
           IF debited THEN [vault EXCEPT ![m] = @ - amount] ELSE vault)
    /\ fees_paid' = IF debited
                    THEN [fees_paid EXCEPT ![m] = @ + amount]
                    ELSE fees_paid
    /\ UNCHANGED <<clock, predictions, deposited, rewards_paid, reservoir>>

----------------------------------------------------------------------------
(* The clock collaborator *)

Tick ==
    /\ clock < MaxClock
    /\ clock' = clock + 1
    /\ last' = Call("tick", "u1", 1, FALSE, 0, "Ok", 0)
    /\ UNCHANGED <<accounts, history>>

----------------------------------------------------------------------------
Next ==
    \/ \E u \in Users, m \in MarketIds, q \in QuestionLens,
          rt \in ResolutionTimes, l \in InitialLiquidities :
          initialize_market(u, m, q, rt, l)
    \/ \E u \in Users, m \in MarketIds, side \in BOOLEAN, a \in Amounts,
          funded \in BOOLEAN :
          place_prediction(u, m, side, a, funded)
    \/ \E u \in Users, m \in MarketIds, outcome \in BOOLEAN :
          resolve_market(u, m, outcome)
    \/ \E u \in Users, m \in MarketIds : claim_reward(u, m)
    \/ \E u \in Users, m \in MarketIds, a \in Amounts : withdraw_fees(u, m, a)
    \/ Tick

Spec == Init /\ [][Next]_vars

----------------------------------------------------------------------------
(* Vocabulary of the properties *)

RECURSIVE Sum(_, _)
Sum(f, S) ==
    IF S = {} THEN 0
    ELSE LET x == CHOOSE y \in S : TRUE IN f[x] + Sum(f, S \ {x})

HasPosition(m, u) == <<m, u>> \in DOMAIN predictions
Position(m, u) == predictions[<<m, u>>]

IsWinner(m, u) ==
    /\ m \in DOMAIN markets
    /\ HasPosition(m, u)
    /\ markets[m].resolved
    /\ Position(m, u).prediction_type \in markets[m].outcome

\* what the reward formula grants to the winning positions of market m
Entitlement(m) ==
    Sum([u \in Users |-> IF IsWinner(m, u)
                         THEN claim_amount(markets[m], Position(m, u))
                         ELSE 0], Users)

\* the step just taken executed instruction op on market m
Did(op, m) == last'.op = op /\ last'.market_id = m

----------------------------------------------------------------------------
(* C1 -- Conservation: the rewards paid by successful claim_reward calls    *)
(* never exceed T = yes_pool + no_pool as it stood at resolution; nothing   *)
(* is paid before resolution, and even the rewards the formula grants to    *)
(* all winning positions together stay within T.                            *)
C1_Conservation ==
    \A m \in MarketIds :
        /\ reservoir[m] = None => rewards_paid[m] = 0
        /\ \A T \in reservoir[m] :
               /\ rewards_paid[m] <= T
               /\ Entitlement(m) <= T

\* both users hold winning positions and have been paid
C1_Witness ==
    \E m \in MarketIds :
        /\ \A u \in Users : IsWinner(m, u) /\ Position(m, u).claimed
        /\ rewards_paid[m] > 0

----------------------------------------------------------------------------
(* C2 -- No value creation: yes_pool + no_pool + rewards and fees paid out  *)
(* + fee_collected is at most the collateral deposited by place_prediction. *)
C2_NoValueCreation ==
    \A m \in DOMAIN markets :
        markets[m].yes_pool + markets[m].no_pool
            + rewards_paid[m] + fees_paid[m] + markets[m].fee_collected
        <= deposited[m]

----------------------------------------------------------------------------
(* C3 -- No double payment: a claimed Position stays claimed; a later       *)
(* claim_reward for it fails with AlreadyClaimed and moves no funds; and a  *)
(* reward is paid only in a step that turns the caller's claimed flag from  *)
(* false to true, so each Position is paid at most once.                    *)
C3_NoDoublePayment ==
    [][\A m \in MarketIds :
        /\ \A u \in Users :
             (HasPosition(m, u) /\ Position(m, u).claimed) =>
                /\ <<m, u>> \in DOMAIN predictions'
                /\ predictions'[<<m, u>>].claimed
                /\ (Did("claim_reward", m) /\ last'.caller = u) =>
                       /\ last'.result = "AlreadyClaimed"
                       /\ last'.paid = 0
                       /\ vault' = vault
                       /\ rewards_paid' = rewards_paid
        /\ (vault'[m] < vault[m] \/ rewards_paid'[m] # rewards_paid[m]) =>
               /\ Did("claim_reward", m)
               /\ HasPosition(m, last'.caller)
               /\ ~Position(m, last'.caller).claimed
               /\ predictions'[<<m, last'.caller>>].claimed
               /\ vault[m] - vault'[m] = last'.paid
               /\ rewards_paid'[m] - rewards_paid[m] = last'.paid
      ]_vars

\* a second claim_reward for a paid Position has just been rejected
C3_Witness ==
    /\ last.op = "claim_reward"
    /\ last.result = "AlreadyClaimed"
    /\ HasPosition(last.market_id, last.caller)
    /\ Position(last.market_id, last.caller).claimed
    /\ rewards_paid[last.market_id] > 0

----------------------------------------------------------------------------
(* C4 -- Resolution is write-once: once a market is resolved it stays       *)
(* resolved with the same outcome, and every later resolve_market fails     *)
(* (Unauthorized for a stranger, MarketAlreadyResolved for the creator).    *)
C4_ResolutionWriteOnce ==
    [][\A m \in DOMAIN markets :
        markets[m].resolved =>
            /\ m \in DOMAIN markets'
            /\ markets'[m].resolved
            /\ markets'[m].outcome = markets[m].outcome
            /\ markets[m].outcome # None
            /\ Did("resolve_market", m) =>
                   last'.result = IF last'.caller = markets[m].creator
                                  THEN "MarketAlreadyResolved"
                                  ELSE "Unauthorized"
      ]_vars

\* the creator has just tried to resolve a resolved market the other way
C4_Witness ==
    /\ last.op = "resolve_market"
    /\ last.result = "MarketAlreadyResolved"
    /\ last.market_id \in DOMAIN markets
    /\ last.caller = markets[last.market_id].creator
    /\ markets[last.market_id].outcome = Some(~last.flag)
    /\ clock > markets[last.market_id].resolution_time

----------------------------------------------------------------------------
(* C5 as claimed -- every place_prediction of a positive amount by a user   *)
(* without a Position, invoked at or after resolution_time, is rejected     *)
(* with MarketExpired and changes no account.                               *)
C5_AlwaysMarketExpired ==
    [][\A m \in DOMAIN markets :
        (/\ Did("place_prediction", m)
         /\ clock >= markets[m].resolution_time
         /\ last'.amount > 0
         /\ ~HasPosition(m, last'.caller)) =>
            /\ last'.result = "MarketExpired"
            /\ UNCHANGED accounts
      ]_vars

(* C5 as amended -- no place_prediction invoked at or after resolution_time *)
(* succeeds or changes a pool or creates a Position; a positive deposit by  *)
(* a user without a Position is rejected with MarketExpired while the       *)
(* market is unresolved and with MarketAlreadyResolved once it is resolved. *)
C5_NoDepositAfterDeadline ==
    [][\A m \in DOMAIN markets :
        (Did("place_prediction", m) /\ clock >= markets[m].resolution_time) =>
            /\ last'.result # "Ok"
            /\ UNCHANGED accounts
            /\ (last'.amount > 0 /\ ~HasPosition(m, last'.caller)) =>
                   last'.result = IF markets[m].resolved
                                  THEN "MarketAlreadyResolved"
                                  ELSE "MarketExpired"
      ]_vars

\* a deposit has just been rejected at the deadline of an unresolved market
C5_Witness ==
    /\ last.op = "place_prediction"
    /\ last.result = "MarketExpired"
    /\ last.market_id \in DOMAIN markets
    /\ ~markets[last.market_id].resolved
    /\ clock = markets[last.market_id].resolution_time
    /\ last.amount > 0

----------------------------------------------------------------------------
(* C6 -- resolve_market succeeds exactly when the caller is the creator,    *)
(* the market is unresolved and the clock has reached resolution_time;      *)
(* otherwise it fails with Unauthorized, MarketAlreadyResolved or           *)
(* MarketNotExpired, in that order, and leaves resolved and outcome alone.  *)
(* No other instruction changes resolved or outcome.                        *)
C6_Expected(m, caller) ==
    IF caller # markets[m].creator THEN "Unauthorized"
    ELSE IF markets[m].resolved THEN "MarketAlreadyResolved"
    ELSE IF clock < markets[m].resolution_time THEN "MarketNotExpired"
    ELSE "Ok"

C6_ResolveGuards ==
    [][\A m \in DOMAIN markets :
        /\ m \in DOMAIN markets'
        /\ Did("resolve_market", m) =>
              /\ last'.result = C6_Expected(m, last'.caller)
              /\ last'.result = "Ok" =>
                    /\ markets'[m].resolved
                    /\ markets'[m].outcome = Some(last'.flag)
              /\ last'.result # "Ok" =>
                    /\ markets'[m].resolved = markets[m].resolved
                    /\ markets'[m].outcome = markets[m].outcome
        /\ ~Did("resolve_market", m) =>
              /\ markets'[m].resolved = markets[m].resolved
              /\ markets'[m].outcome = markets[m].outcome
      ]_vars

\* the creator has just resolved the market at its deadline
C6_Witness ==
    /\ last.op = "resolve_market"
    /\ last.result = "Ok"
    /\ last.market_id \in DOMAIN markets
    /\ clock = markets[last.market_id].resolution_time
    /\ markets[last.market_id].outcome = Some(last.flag)

----------------------------------------------------------------------------
(* C7 -- A losing position can never be claimed: in a resolved market a     *)
(* Position on the other side than the outcome is unclaimed, and every      *)
(* claim_reward for it fails with PredictionLost, pays nothing and leaves   *)
(* it unclaimed; on an unresolved market claim_reward for any Position      *)
(* fails with MarketNotResolved.                                            *)
C7_LosingNeverClaims ==
    [][\A m \in DOMAIN markets : \A u \in Users :
        HasPosition(m, u) =>
            /\ (markets[m].resolved /\ ~IsWinner(m, u)) =>
                   ~Position(m, u).claimed
            /\ (Did("claim_reward", m) /\ last'.caller = u) =>
                  /\ ~markets[m].resolved =>
                        last'.result = "MarketNotResolved"
                  /\ (markets[m].resolved /\ ~IsWinner(m, u)) =>
                        /\ last'.result = "PredictionLost"
                        /\ last'.paid = 0
                        /\ vault' = vault
                        /\ rewards_paid' = rewards_paid
                        /\ predictions' = predictions
                        /\ ~predictions'[<<m, u>>].claimed
      ]_vars

\* a claim for a losing Position has just been rejected
C7_Witness ==
    /\ last.op = "claim_reward"
    /\ last.result = "PredictionLost"
    /\ HasPosition(last.market_id, last.caller)
    /\ ~IsWinner(last.market_id, last.caller)
    /\ ~Position(last.market_id, last.caller).claimed

----------------------------------------------------------------------------
----------------------------------------------------------------------------
----------------------------------------------------------------------------
(* C10 -- A deposit on a side whose pool is 0 is never accepted: the call   *)
(* changes no pool and creates no Position, and whenever it gets as far as  *)
(* pricing (amount > 0, no Position yet, market unresolved and before its   *)
(* deadline) it is rejected with InsufficientOutput.  A market created with *)
(* initial_liquidity = 0 keeps zero-zero pools and no Position forever.     *)
C10_ZeroPoolRejects ==
    [][/\ \A m \in DOMAIN markets :
            (Did("place_prediction", m)
                /\ side_pool(markets[m], last'.flag) = 0) =>
                /\ last'.result # "Ok"
                /\ UNCHANGED accounts
                /\ (/\ last'.amount > 0
                    /\ ~HasPosition(m, last'.caller)
                    /\ ~markets[m].resolved
                    /\ clock < markets[m].resolution_time) =>
                       /\ tokens_to_mint(0, last'.amount, U64_MAX) = 0
                       /\ last'.result = "InsufficientOutput"
       /\ \A m \in DOMAIN markets' :
            markets'[m].total_liquidity = 0 =>
                /\ markets'[m].yes_pool = 0
                /\ markets'[m].no_pool = 0
                /\ \A u \in Users : <<m, u>> \notin DOMAIN predictions'
      ]_vars

\* a funded deposit into a market seeded with 0 has just been rejected
C10_Witness ==
    /\ last.op = "place_prediction"
    /\ last.result = "InsufficientOutput"
    /\ last.amount = LargeAmount
    /\ last.market_id \in DOMAIN markets
    /\ markets[last.market_id].total_liquidity = 0
    /\ markets[last.market_id].yes_pool = 0
    /\ clock > 0

----------------------------------------------------------------------------
----------------------------------------------------------------------------
(* C12 -- once every winning Position of a resolved market has claimed,     *)
(* the rewards paid add up to T = yes_pool + no_pool, short of it by less   *)
(* than the number of winning claims (stated for pools whose sum fits the   *)
(* width, so that no clamping is involved).                                 *)
Winners(m) == {u \in Users : IsWinner(m, u)}

C12_AllWinnersPaidT ==
    \A m \in DOMAIN markets :
        (/\ markets[m].resolved
         /\ Winners(m) # {}
         /\ markets[m].yes_pool + markets[m].no_pool <= U64_MAX
         /\ \A u \in Winners(m) : Position(m, u).claimed) =>
            LET T == markets[m].yes_pool + markets[m].no_pool IN
            /\ rewards_paid[m] <= T
            /\ T - rewards_paid[m] < Cardinality(Winners(m))

----------------------------------------------------------------------------
----------------------------------------------------------------------------
\* C14: fee_collected is 0 in every reachable state; withdraw_fees by the
\* creator with amount > 0 fails with InsufficientFees, by anyone else it
\* fails with Unauthorized, and it never moves a positive amount out of
\* escrow.
C14_NoFees ==
    [][/\ \A m \in DOMAIN markets' : markets'[m].fee_collected = 0
       /\ \A m \in DOMAIN markets :
            Did("withdraw_fees", m) =>
                /\ (last'.caller = markets[m].creator /\ last'.amount > 0) =>
                       last'.result = "InsufficientFees"
                /\ last'.caller # markets[m].creator =>
                       last'.result = "Unauthorized"
                /\ last'.paid = 0
                /\ vault' = vault
                /\ fees_paid' = fees_paid
                /\ fees_paid[m] = 0
      ]_vars

\* the creator asked for an amount the escrow could have paid
C14_Witness ==
    /\ last.op = "withdraw_fees"
    /\ last.market_id \in DOMAIN markets
    /\ last.caller = markets[last.market_id].creator
    /\ last.amount > 0
    /\ vault[last.market_id] >= last.amount
    /\ last.result = "InsufficientFees"

----------------------------------------------------------------------------
\* C15: Resolved is terminal and freezes the reservoir.  A successful
\* resolve_market leaves yes_pool and no_pool unchanged; from then on the
\* market stays resolved, no place_prediction succeeds (a well-formed one,
\* amount > 0 from a caller without a Position, fails with
\* MarketAlreadyResolved), and the pools keep the values they had at
\* resolution whatever claim_reward and withdraw_fees do.
C15_ResolvedTerminal ==
    [][\A m \in DOMAIN markets :
          /\ (Did("resolve_market", m) /\ last'.result = "Ok") =>
                 /\ markets'[m].resolved
                 /\ markets'[m].yes_pool = markets[m].yes_pool
                 /\ markets'[m].no_pool = markets[m].no_pool
          /\ markets[m].resolved =>
                 /\ markets'[m].resolved
                 /\ markets'[m].outcome = markets[m].outcome
                 /\ markets'[m].yes_pool = markets[m].yes_pool
                 /\ markets'[m].no_pool = markets[m].no_pool
                 /\ reservoir'[m] = Some(markets'[m].yes_pool + markets'[m].no_pool)
                 /\ Did("place_prediction", m) =>
                        /\ last'.result \in {"AccountAlreadyInUse", "InvalidAmount",
                                             "MarketAlreadyResolved"}
                        /\ (last'.amount > 0 /\ ~HasPosition(m, last'.caller)) =>
                               last'.result = "MarketAlreadyResolved"
      ]_vars

\* a funded newcomer is turned away after a winner has already been paid
C15_Witness ==
    /\ last.op = "place_prediction"
    /\ last.result = "MarketAlreadyResolved"
    /\ last.market_id \in DOMAIN markets
    /\ markets[last.market_id].resolved
    /\ rewards_paid[last.market_id] > 0

----------------------------------------------------------------------------
\* C16: in every reachable state of a market, outcome is unset exactly when
\* resolved = false and set exactly when resolved = true; so claim_reward
\* never fails with InvalidOutcome.
C16_OutcomeIffResolved ==
    /\ \A m \in DOMAIN markets :
          /\ ~markets[m].resolved <=> markets[m].outcome = None
          /\ markets[m].resolved <=> \E b \in BOOLEAN : markets[m].outcome = Some(b)
    /\ last.result # "InvalidOutcome"

\* a claim on a market resolved NO got past the outcome guard of line 181
C16_Witness ==
    /\ last.op = "claim_reward"
    /\ last.market_id \in DOMAIN markets
    /\ markets[last.market_id].resolved
    /\ markets[last.market_id].outcome = Some(FALSE)
    /\ last.result \in {"PredictionLost", "VaultUnderflow", "Ok"}

----------------------------------------------------------------------------
\* C17: escrow solvency.  With the escrow counted as the amounts deposited
\* by place_prediction minus the amounts paid out, every unclaimed winning
\* Position has a reward no larger than the escrow, so the escrow debit
\* never fails and no winning claim is refused for lack of funds.
C17_EscrowSolvent ==
    /\ \A m \in DOMAIN markets : \A u \in Users :
          (IsWinner(m, u) /\ ~Position(m, u).claimed) =>
              claim_amount(markets[m], Position(m, u)) <=
                  deposited[m] - rewards_paid[m] - fees_paid[m]
    /\ ~(last.op = "claim_reward" /\ last.result = "VaultUnderflow")

----------------------------------------------------------------------------
\* tokens_received of all Positions of market m on one side
TokensOn(m, side) ==
    Sum([u \in Users |->
            IF HasPosition(m, u) /\ Position(m, u).prediction_type = side
            THEN Position(m, u).tokens_received
            ELSE 0], Users)

\* the bounds of one successful deposit: with P_before + amount within the
\* u64 range, 1 <= tokens_received < amount and tokens_received < P_before
C18_DepositBounds(m) ==
    (m \in DOMAIN markets /\ Did("place_prediction", m) /\ last'.result = "Ok") =>
        LET P == IF last'.flag THEN markets[m].yes_pool ELSE markets[m].no_pool
            t == predictions'[<<m, last'.caller>>].tokens_received
        IN  /\ 1 <= t
            /\ P + last'.amount <= U64_MAX =>
                   (t < last'.amount /\ t < P /\ t < P + last'.amount)

----------------------------------------------------------------------------
\* C19: claim order independence.  In a resolved market a claim_reward by
\* one Position leaves the Market record and every other Position as they
\* were, and neither the reward of another Position nor the success of its
\* claim depends on that claim having happened first: two claims by
\* different Positions commute.
C19_ClaimOrderIndependent ==
    [][\A m \in DOMAIN markets :
          (Did("claim_reward", m) /\ markets[m].resolved) =>
              /\ markets' = markets
              /\ \A v \in Users \ {last'.caller} :
                    HasPosition(m, v) =>
                        /\ predictions'[<<m, v>>] = predictions[<<m, v>>]
                        /\ claim_amount(markets'[m], predictions'[<<m, v>>]) =
                               claim_amount(markets[m], predictions[<<m, v>>])
                        /\ (claim_reward_result(v, m)' = "Ok") <=>
                               (claim_reward_result(v, m) = "Ok")
      ]_vars

----------------------------------------------------------------------------
\* C20: in every reachable state an unclaimed Position on the winning side
\* of a resolved market has a winning pool W > 0 and a computed reward
\* >= tokens_received >= 1, so claim_reward never fails with NoReward.
C20_WinnerRewardPositive ==
    /\ \A m \in DOMAIN markets : \A u \in Users :
          (IsWinner(m, u) /\ ~Position(m, u).claimed) =>
              LET W == IF TRUE \in markets[m].outcome
                       THEN markets[m].yes_pool ELSE markets[m].no_pool
                  t == Position(m, u).tokens_received
              IN  /\ W > 0
                  /\ t >= 1
                  /\ claim_amount(markets[m], Position(m, u)) >= t
    /\ last.result # "NoReward"

\* a winner was just paid while the other winner, still unclaimed, is owed
\* more than the tokens it holds
C20_Witness ==
    /\ last.op = "claim_reward"
    /\ last.result = "Ok"
    /\ \E u \in Users \ {last.caller} :
          /\ IsWinner(last.market_id, u)
          /\ ~Position(last.market_id, u).claimed
          /\ claim_amount(markets[last.market_id], Position(last.market_id, u)) >
                 Position(last.market_id, u).tokens_received

====
